---- MODULE Spec2Model ----
(***************************************************************************)
(* Model of the Go package github.com/ardnew/version (src/version.go).     *)
(*                                                                         *)
(* A Go string is modelled as a sequence of characters; a character is a   *)
(* one-character TLA+ string, except for the two non-ASCII characters the  *)
(* model uses, which are named by their code point ("U+00E9", "U+2015").   *)
(***************************************************************************)
EXTENDS Integers, Sequences, FiniteSets, TLC

VARIABLES Version, ChangeLog, last, justSet, w, pc, idx, input

vars == <<Version, ChangeLog, last, justSet, w, pc, idx, input>>

----------------------------------------------------------------------------
(* Characters and strings                                                  *)

Digits == <<"0", "1", "2", "3", "4", "5", "6", "7", "8", "9">>

IsDigit(c) == \E k \in 1..10 : Digits[k] = c

DigitVal(c) == (CHOOSE k \in 1..10 : Digits[k] = c) - 1

Lower == {"a", "b", "c", "d", "e", "f", "g", "h", "i", "j", "k", "l", "m",
          "n", "o", "p", "q", "r", "s", "t", "u", "v", "w", "x", "y", "z"}

Upper == {"A", "B", "C", "D", "E", "F", "G", "H", "I", "J", "K", "L", "M",
          "N", "O", "P", "Q", "R", "S", "T", "U", "V", "W", "X", "Y", "Z"}

IsLetter(c) == c \in Lower \cup Upper

\* [0-9a-zA-Z-]
IsIdentChar(c) == IsDigit(c) \/ IsLetter(c) \/ c = "-"

\* The suffix of s that starts at position k (1-based); empty beyond the end.
From(s, k) == IF k > Len(s) THEN <<>> ELSE SubSeq(s, k, Len(s))

\* The prefix of s of length n.
Take(s, n) == IF n <= 0 THEN <<>> ELSE SubSeq(s, 1, IF n > Len(s) THEN Len(s) ELSE n)

\* Position of the first character of s that is in set cs, Len(s)+1 if none.
RECURSIVE FirstOf(_, _, _)
FirstOf(s, cs, k) ==
    IF k > Len(s) THEN Len(s) + 1
    ELSE IF s[k] \in cs THEN k
    ELSE FirstOf(s, cs, k + 1)

\* s cut at every "." : the sequence of the segments between the dots.
RECURSIVE SplitDots(_)
SplitDots(s) ==
    LET k == FirstOf(s, {"."}, 1)
    IN  IF k > Len(s) THEN <<s>>
        ELSE <<Take(s, k - 1)>> \o SplitDots(From(s, k + 1))

RECURSIVE Concat(_)
Concat(ss) == IF Len(ss) = 0 THEN <<>> ELSE Head(ss) \o Concat(Tail(ss))

RECURSIVE runeRepeat(_, _)
runeRepeat(c, n) == IF n <= 0 THEN <<>> ELSE <<c>> \o runeRepeat(c, n - 1)

\* Number of bytes of the UTF-8 encoding of a character.
RuneLen(c) ==
    IF c = "U+2015" THEN 3
    ELSE IF c = "U+00E9" THEN 2
    ELSE 1

\* len(s) of a Go string: its number of bytes.
RECURSIVE ByteLen(_)
ByteLen(s) == IF Len(s) = 0 THEN 0 ELSE RuneLen(Head(s)) + ByteLen(Tail(s))

----------------------------------------------------------------------------
(* Unsigned integers                                                       *)

\* Width of Go's uint in the model (32 or 64 on a real platform).
UintBits == 8

MaxUint == 2 ^ UintBits - 1

\* strconv.ParseUint(tok, 10, bits) as used by fmt's %d on a run of digits:
\* the value, or -1 when it does not fit in a uint.
RECURSIVE ParseUintFrom(_, _, _)
ParseUintFrom(tok, k, acc) ==
    IF k > Len(tok) THEN acc
    ELSE LET n == acc * 10 + DigitVal(tok[k])
         IN  IF n > MaxUint THEN -1 ELSE ParseUintFrom(tok, k + 1, n)

\* fmt.Sscanf(tok, "%d", &x) with x a zero-valued uint: x afterwards.
\* A scan error (overflow) is ignored by the caller and x keeps its zero.
Sscanf(tok) ==
    LET n == ParseUintFrom(tok, 1, 0)
    IN  IF n < 0 THEN 0 ELSE n

\* fmt's %d of a uint.
RECURSIVE FormatUint(_)
FormatUint(n) ==
    IF n < 10 THEN <<Digits[n + 1]>>
    ELSE FormatUint(n \div 10) \o <<Digits[(n % 10) + 1]>>

----------------------------------------------------------------------------
(* VersionPattern and Parse                                                *)

\* 0|[1-9]\d*
IsNumericId(s) ==
    /\ Len(s) >= 1
    /\ \A k \in 1..Len(s) : IsDigit(s[k])
    /\ (s[1] = "0" => Len(s) = 1)

\* \d*[a-zA-Z-][0-9a-zA-Z-]*
IsAlnumId(s) ==
    /\ \A k \in 1..Len(s) : IsIdentChar(s[k])
    /\ \E k \in 1..Len(s) : ~IsDigit(s[k])

\* (?:0|[1-9]\d*|\d*[a-zA-Z-][0-9a-zA-Z-]*)(?:\.(?:...))*
IsPrerelease(s) ==
    LET ids == SplitDots(s)
    IN  \A k \in 1..Len(ids) : IsNumericId(ids[k]) \/ IsAlnumId(ids[k])

\* [0-9a-zA-Z-]+(?:\.[0-9a-zA-Z-]+)*
IsMetadata(s) ==
    LET ids == SplitDots(s)
    IN  \A k \in 1..Len(ids) :
            /\ Len(ids[k]) >= 1
            /\ \A j \in 1..Len(ids[k]) : IsIdentChar(ids[k][j])

NoMatch == <<>>

\* regexp.MustCompile(VersionPattern).FindStringSubmatch(version):
\* the whole match and the five groups, indexed 0..5, or NoMatch.
\* The pattern is anchored at both ends and its groups are delimited by
\* characters ("-" after the patch number, "+") the preceding group cannot
\* hold, so the decomposition of a matching string is unique.
FindStringSubmatch(version) ==
    LET coreEnd == FirstOf(version, {"-", "+"}, 1)
        core    == SplitDots(Take(version, coreEnd - 1))
        hasPre  == coreEnd <= Len(version) /\ version[coreEnd] = "-"
        rest    == From(version, coreEnd + 1)
        preEnd  == IF hasPre THEN FirstOf(rest, {"+"}, 1) ELSE 0
        pre     == IF hasPre THEN Take(rest, preEnd - 1) ELSE <<>>
        afterPre == IF hasPre THEN From(rest, preEnd) ELSE From(version, coreEnd)
        hasMeta == Len(afterPre) >= 1
        meta    == From(afterPre, 2)
    IN  IF /\ Len(core) = 3
           /\ \A k \in 1..3 : IsNumericId(core[k])
           /\ (hasPre => IsPrerelease(pre))
           /\ (hasMeta => IsMetadata(meta))
        THEN [i \in 0..5 |->
                CASE i = 0 -> version
                  [] i = 1 -> core[1]
                  [] i = 2 -> core[2]
                  [] i = 3 -> core[3]
                  [] i = 4 -> pre
                  [] i = 5 -> meta]
        ELSE NoMatch

ValidVersion(version) == FindStringSubmatch(version) # NoMatch

Panic == [panic |-> TRUE]

\* The body of Parse once the pattern has been applied: the panic, or the
\* five components read from the groups.
Components(sub) ==
    IF sub = NoMatch THEN Panic
    ELSE [panic |-> FALSE,
          major |-> Sscanf(sub[1]),
          minor |-> Sscanf(sub[2]),
          patch |-> Sscanf(sub[3]),
          pre   |-> sub[4],
          meta  |-> sub[5]]

\* func Parse(version string) (major, minor, patch uint, pre, meta string)
Parse(version) == Components(FindStringSubmatch(version))

\* The closure str of String(): major.minor.patch[-pre][+meta]
str(major, minor, patch, pre, meta) ==
       FormatUint(major) \o <<".">> \o FormatUint(minor) \o <<".">>
    \o FormatUint(patch)
    \o (IF pre # <<>> THEN <<"-">> \o pre ELSE <<>>)
    \o (IF meta # <<>> THEN <<"+">> \o meta ELSE <<>>)

----------------------------------------------------------------------------
(* Package time: layouts, time.Parse and Time.Format as ParseDate and      *)
(* Change.String use them.  A layout is the sequence of chunks that        *)
(* time.nextStdChunk cuts it into: a standard chunk, named by its          *)
(* reference text, or a literal.                                           *)

S(ref) == [std |-> ref, lit |-> <<>>]

L(text) == [std |-> "lit", lit |-> text]

SP == L(<<" ">>)

Dash == L(<<"-">>)

Slash == L(<<"/">>)

Colon == L(<<":">>)

CommaSP == L(<<",", " ">>)

shortMonthNames ==
    << <<"J","a","n">>, <<"F","e","b">>, <<"M","a","r">>, <<"A","p","r">>,
       <<"M","a","y">>, <<"J","u","n">>, <<"J","u","l">>, <<"A","u","g">>,
       <<"S","e","p">>, <<"O","c","t">>, <<"N","o","v">>, <<"D","e","c">> >>

longMonthNames ==
    << <<"J","a","n","u","a","r","y">>, <<"F","e","b","r","u","a","r","y">>,
       <<"M","a","r","c","h">>, <<"A","p","r","i","l">>, <<"M","a","y">>,
       <<"J","u","n","e">>, <<"J","u","l","y">>, <<"A","u","g","u","s","t">>,
       <<"S","e","p","t","e","m","b","e","r">>, <<"O","c","t","o","b","e","r">>,
       <<"N","o","v","e","m","b","e","r">>, <<"D","e","c","e","m","b","e","r">> >>

shortDayNames ==
    << <<"S","u","n">>, <<"M","o","n">>, <<"T","u","e">>, <<"W","e","d">>,
       <<"T","h","u">>, <<"F","r","i">>, <<"S","a","t">> >>

longDayNames ==
    << <<"S","u","n","d","a","y">>, <<"M","o","n","d","a","y">>,
       <<"T","u","e","s","d","a","y">>, <<"W","e","d","n","e","s","d","a","y">>,
       <<"T","h","u","r","s","d","a","y">>, <<"F","r","i","d","a","y">>,
       <<"S","a","t","u","r","d","a","y">> >>

LowerSeq == <<"a", "b", "c", "d", "e", "f", "g", "h", "i", "j", "k", "l", "m",
              "n", "o", "p", "q", "r", "s", "t", "u", "v", "w", "x", "y", "z">>

UpperSeq == <<"A", "B", "C", "D", "E", "F", "G", "H", "I", "J", "K", "L", "M",
              "N", "O", "P", "Q", "R", "S", "T", "U", "V", "W", "X", "Y", "Z">>

\* ASCII lower-casing of one character.
ToLower(c) ==
    IF c \in Upper THEN LowerSeq[CHOOSE k \in 1..26 : UpperSeq[k] = c] ELSE c

\* time.match: equality of two strings of the same length, ignoring ASCII case.
match(s1, s2) ==
    /\ Len(s1) = Len(s2)
    /\ \A k \in 1..Len(s1) : ToLower(s1[k]) = ToLower(s2[k])

\* time.lookup: the index (from 1) of the first name of tab that val starts
\* with, 0 if there is none.
RECURSIVE lookup(_, _, _)
lookup(tab, val, k) ==
    IF k > Len(tab) THEN 0
    ELSE IF Len(val) >= Len(tab[k]) /\ match(Take(val, Len(tab[k])), tab[k]) THEN k
    ELSE lookup(tab, val, k + 1)

isDigitAt(s, i) == i <= Len(s) /\ IsDigit(s[i])

\* time.getnum: a one- or two-digit number (two digits exactly when fixed).
getnum(s, fixed) ==
    IF ~isDigitAt(s, 1) THEN [err |-> TRUE, n |-> 0, rest |-> s]
    ELSE IF ~isDigitAt(s, 2)
         THEN IF fixed THEN [err |-> TRUE, n |-> 0, rest |-> s]
              ELSE [err |-> FALSE, n |-> DigitVal(s[1]), rest |-> From(s, 2)]
    ELSE [err |-> FALSE, n |-> DigitVal(s[1]) * 10 + DigitVal(s[2]),
          rest |-> From(s, 3)]

\* Number of leading characters of s, from position k, that are digits.
RECURSIVE DigitRun(_, _)
DigitRun(s, k) == IF isDigitAt(s, k) THEN 1 + DigitRun(s, k + 1) ELSE 0

RECURSIVE DecimalOf(_, _, _)
DecimalOf(s, k, acc) ==
    IF k > Len(s) THEN acc ELSE DecimalOf(s, k + 1, acc * 10 + DigitVal(s[k]))

\* The decimal value of the digits of s from position k, or some number
\* above cap once the value exceeds cap.
RECURSIVE DecimalUpTo(_, _, _, _)
DecimalUpTo(s, k, acc, cap) ==
    IF k > Len(s) \/ acc > cap THEN acc
    ELSE DecimalUpTo(s, k + 1, acc * 10 + DigitVal(s[k]), cap)

\* time.atoi on the two or four characters of a year: an optional sign and
\* digits only.
atoi(p) ==
    LET signed == Len(p) >= 1 /\ p[1] \in {"-", "+"}
        body   == IF signed THEN From(p, 2) ELSE p
    IN  IF Len(body) = 0 \/ \E k \in 1..Len(body) : ~IsDigit(body[k])
        THEN [err |-> TRUE, n |-> 0]
        ELSE [err |-> FALSE,
              n |-> IF signed /\ p[1] = "-" THEN 0 - DecimalOf(body, 1, 0)
                    ELSE DecimalOf(body, 1, 0)]

\* time.cutspace
RECURSIVE cutspace(_)
cutspace(s) == IF Len(s) > 0 /\ s[1] = " " THEN cutspace(Tail(s)) ELSE s

\* time.skip: value with the literal prefix removed; a space of the prefix
\* stands for any run of spaces (also none at the end of value).
RECURSIVE skip(_, _)
skip(value, prefix) ==
    IF Len(prefix) = 0 THEN [err |-> FALSE, rest |-> value]
    ELSE IF prefix[1] = " "
         THEN IF Len(value) > 0 /\ value[1] # " "
              THEN [err |-> TRUE, rest |-> value]
              ELSE skip(cutspace(value), cutspace(prefix))
    ELSE IF Len(value) = 0 \/ value[1] # prefix[1]
         THEN [err |-> TRUE, rest |-> value]
    ELSE skip(Tail(value), Tail(prefix))

commaOrPeriod(c) == c \in {".", ","}

\* time.parseSignedOffset: length of a leading sign and hour (at most 23), 0
\* if there is none.
parseSignedOffset(value) ==
    IF Len(value) = 0 \/ value[1] \notin {"-", "+"} THEN 0
    ELSE LET n == DigitRun(value, 2)
         IN  IF n = 0 THEN 0
             ELSE IF DecimalUpTo(SubSeq(value, 2, n + 1), 1, 0, 23) > 23 THEN 0
             ELSE n + 1

RECURSIVE UpperRun(_, _)
UpperRun(s, k) ==
    IF k <= 6 /\ k <= Len(s) /\ s[k] \in Upper THEN 1 + UpperRun(s, k + 1) ELSE 0

\* time.parseTimeZone: length of the zone abbreviation value starts with, 0
\* if it starts with none.
parseTimeZone(value) ==
    IF Len(value) < 3 THEN 0
    ELSE IF Len(value) >= 4 /\ Take(value, 4) \in {<<"C","h","S","T">>, <<"M","e","S","T">>}
         THEN 4
    ELSE IF Take(value, 3) = <<"G","M","T">>
         THEN 3 + parseSignedOffset(From(value, 4))
    ELSE IF value[1] \in {"+", "-"} THEN parseSignedOffset(value)
    ELSE LET nUpper == UpperRun(value, 1)
         IN  CASE nUpper = 5 -> IF value[5] = "T" THEN 5 ELSE 0
               [] nUpper = 4 -> IF value[4] = "T" \/ Take(value, 4) = <<"W","I","T","A">>
                                THEN 4 ELSE 0
               [] nUpper = 3 -> 3
               [] OTHER -> 0

isLeap(year) == year % 4 = 0 /\ (year % 100 # 0 \/ year % 400 = 0)

\* time.daysIn
daysIn(month, year) ==
    IF month = 2 THEN (IF isLeap(year) THEN 29 ELSE 28)
    ELSE IF month \in {4, 6, 9, 11} THEN 30
    ELSE 31

\* Days from 1970-01-01 to the given day of the proleptic Gregorian calendar.
daysFromCivil(year, month, day) ==
    LET y   == IF month <= 2 THEN year - 1 ELSE year
        era == IF y >= 0 THEN y \div 400 ELSE 0 - ((399 - y) \div 400)
        yoe == y - era * 400
        mp  == (month + 9) % 12
        doy == (153 * mp + 2) \div 5 + day - 1
        doe == yoe * 365 + yoe \div 4 - yoe \div 100 + doy
    IN  era * 146097 + doe - 719468

\* The calendar day that lies the given number of days after 1970-01-01.
civilFromDays(days) ==
    LET z   == days + 719468
        era == IF z >= 0 THEN z \div 146097 ELSE 0 - ((146096 - z) \div 146097)
        doe == z - era * 146097
        yoe == (doe - doe \div 1460 + doe \div 36524 - doe \div 146096) \div 365
        doy == doe - (365 * yoe + yoe \div 4 - yoe \div 100)
        mp  == (5 * doy + 2) \div 153
        d   == doy - (153 * mp + 2) \div 5 + 1
        m   == IF mp < 10 THEN mp + 3 ELSE mp - 9
        y   == yoe + era * 400
    IN  [year |-> IF m <= 2 THEN y + 1 ELSE y, month |-> m, day |-> d]

\* A time.Time: an instant, as days since 1970-01-01 UTC and seconds of that
\* day, and the zone it is shown in (abbreviation and offset in seconds).
\* Fractions of a second are left out: no output of the package shows them.
Instant(days, secs, name, offset) ==
    LET total == secs
        carry == IF total >= 0 THEN total \div 86400
                 ELSE 0 - ((86399 - total) \div 86400)
    IN  [days |-> days + carry, secs |-> total - carry * 86400,
         name |-> name, offset |-> offset]

UTCName == <<"U", "T", "C">>

\* The wall clock of t in its own zone.
Clock(t) ==
    LET loc   == Instant(t.days, t.secs + t.offset, t.name, t.offset)
        date  == civilFromDays(loc.days)
    IN  [year |-> date.year, month |-> date.month, day |-> date.day,
         hour |-> loc.secs \div 3600, min |-> (loc.secs % 3600) \div 60,
         sec |-> loc.secs % 60,
         weekday |-> (((loc.days + 4) % 7) + 7) % 7]

\* The state of time.Parse while it walks the layout.
ParseStart(value) ==
    [value |-> value, err |-> FALSE, year |-> 0, month |-> -1, day |-> -1,
     hour |-> 0, min |-> 0, sec |-> 0, pmSet |-> FALSE, amSet |-> FALSE,
     utc |-> FALSE, zoneOffset |-> -1, zoneName |-> <<>>]

Bad(st) == [st EXCEPT !.err = TRUE]

IsFrac(tok) == tok.std \in {".000", ".999999999"}

\* The standard chunk that follows position k of the layout, as
\* nextStdChunk finds it past a literal prefix.
RECURSIVE NextStd(_, _)
NextStd(layout, k) ==
    IF k > Len(layout) THEN S("")
    ELSE IF layout[k].std = "lit" THEN NextStd(layout, k + 1)
    ELSE layout[k]

\* A numeric zone: sign, two-digit hour, optional colon, two-digit minute.
ParseNumTZ(st, colon) ==
    LET v    == st.value
        need == IF colon THEN 6 ELSE 5
        hh   == getnum(SubSeq(v, 2, 3), TRUE)
        mm   == getnum(IF colon THEN SubSeq(v, 5, 6) ELSE SubSeq(v, 4, 5), TRUE)
        off  == (hh.n * 60 + mm.n) * 60
    IN  IF Len(v) < need THEN Bad(st)
        ELSE IF colon /\ v[4] # ":" THEN Bad(st)
        ELSE IF hh.err \/ mm.err THEN Bad(st)
        ELSE IF hh.n > 24 \/ mm.n > 60 THEN Bad(st)
        ELSE IF v[1] = "+" THEN [st EXCEPT !.value = From(v, need + 1), !.zoneOffset = off]
        ELSE IF v[1] = "-" THEN [st EXCEPT !.value = From(v, need + 1), !.zoneOffset = 0 - off]
        ELSE Bad(st)

\* One standard chunk of the layout applied to the state: the cases of the
\* switch in time.parse.
ParseStd(st, tok, next) ==
    LET v   == st.value
        std == tok.std
    IN  CASE std = "06" ->
               LET y == atoi(Take(v, 2))
               IN  IF Len(v) < 2 \/ y.err THEN Bad(st)
                   ELSE [st EXCEPT !.value = From(v, 3),
                                   !.year = IF y.n >= 69 THEN y.n + 1900 ELSE y.n + 2000]
          [] std = "2006" ->
               LET y == atoi(Take(v, 4))
               IN  IF Len(v) < 4 \/ ~isDigitAt(v, 1) \/ y.err THEN Bad(st)
                   ELSE [st EXCEPT !.value = From(v, 5), !.year = y.n]
          [] std \in {"Jan", "January"} ->
               LET tab == IF std = "Jan" THEN shortMonthNames ELSE longMonthNames
                   k   == lookup(tab, v, 1)
               IN  IF k = 0 THEN Bad(st)
                   ELSE [st EXCEPT !.value = From(v, Len(tab[k]) + 1), !.month = k]
          [] std \in {"1", "01"} ->
               LET r == getnum(v, std = "01")
               IN  IF r.err \/ r.n <= 0 \/ 12 < r.n THEN Bad(st)
                   ELSE [st EXCEPT !.value = r.rest, !.month = r.n]
          [] std \in {"Mon", "Monday"} ->
               LET tab == IF std = "Mon" THEN shortDayNames ELSE longDayNames
                   k   == lookup(tab, v, 1)
               IN  IF k = 0 THEN Bad(st)
                   ELSE [st EXCEPT !.value = From(v, Len(tab[k]) + 1)]
          [] std \in {"2", "_2", "02"} ->
               LET v1 == IF std = "_2" /\ Len(v) > 0 /\ v[1] = " " THEN Tail(v) ELSE v
                   r  == getnum(v1, std = "02")
               IN  IF r.err THEN Bad(st)
                   ELSE [st EXCEPT !.value = r.rest, !.day = r.n]
          [] std = "15" ->
               LET r == getnum(v, FALSE)
               IN  IF r.err \/ 24 <= r.n THEN Bad(st)
                   ELSE [st EXCEPT !.value = r.rest, !.hour = r.n]
          [] std \in {"3", "03"} ->
               LET r == getnum(v, std = "03")
               IN  IF r.err \/ 12 < r.n THEN Bad(st)
                   ELSE [st EXCEPT !.value = r.rest, !.hour = r.n]
          [] std \in {"4", "04"} ->
               LET r == getnum(v, std = "04")
               IN  IF r.err \/ 60 <= r.n THEN Bad(st)
                   ELSE [st EXCEPT !.value = r.rest, !.min = r.n]
          [] std \in {"5", "05"} ->
               LET r    == getnum(v, std = "05")
                   rest == r.rest
                   frac == /\ Len(rest) >= 2
                           /\ commaOrPeriod(rest[1])
                           /\ isDigitAt(rest, 2)
                           /\ ~IsFrac(next)
               IN  IF r.err \/ 60 <= r.n THEN Bad(st)
                   ELSE [st EXCEPT !.sec = r.n,
                                   !.value = IF frac
                                             THEN From(rest, 2 + DigitRun(rest, 2))
                                             ELSE rest]
          [] std \in {"PM", "pm"} ->
               LET p  == Take(v, 2)
                   pm == IF std = "PM" THEN <<"P", "M">> ELSE <<"p", "m">>
                   am == IF std = "PM" THEN <<"A", "M">> ELSE <<"a", "m">>
               IN  IF Len(v) < 2 THEN Bad(st)
                   ELSE IF p = pm THEN [st EXCEPT !.value = From(v, 3), !.pmSet = TRUE]
                   ELSE IF p = am THEN [st EXCEPT !.value = From(v, 3), !.amSet = TRUE]
                   ELSE Bad(st)
          [] std = "Z07:00" ->
               IF Len(v) >= 1 /\ v[1] = "Z"
               THEN [st EXCEPT !.value = Tail(v), !.utc = TRUE]
               ELSE ParseNumTZ(st, TRUE)
          [] std = "-0700" -> ParseNumTZ(st, FALSE)
          [] std = "MST" ->
               IF Len(v) >= 3 /\ Take(v, 3) = UTCName
               THEN [st EXCEPT !.value = From(v, 4), !.utc = TRUE]
               ELSE LET n == parseTimeZone(v)
                    IN  IF n = 0 THEN Bad(st)
                        ELSE [st EXCEPT !.value = From(v, n + 1),
                                        !.zoneName = Take(v, n)]
          [] std = ".999999999" ->
               IF Len(v) < 2 \/ ~commaOrPeriod(v[1]) \/ ~isDigitAt(v, 2) THEN st
               ELSE [st EXCEPT !.value = From(v, 2 + DigitRun(v, 2))]
          [] OTHER -> Bad(st)

\* The state after the literal prefix of a chunk has been skipped.
Skipped(st, r) == IF r.err THEN Bad(st) ELSE [st EXCEPT !.value = r.rest]

\* The loop of time.parse over the chunks of the layout from position k.
RECURSIVE ParseChunks(_, _, _)
ParseChunks(st, layout, k) ==
    IF st.err THEN st
    ELSE IF k > Len(layout)
         THEN (IF Len(st.value) # 0 THEN Bad(st) ELSE st)
    ELSE IF layout[k].std = "lit"
         THEN ParseChunks(Skipped(st, skip(st.value, layout[k].lit)), layout, k + 1)
    ELSE ParseChunks(ParseStd(st, layout[k], NextStd(layout, k + 1)), layout, k + 1)

Nil == [ok |-> FALSE]

\* The hour offset a fabricated zone gets from its name (GMT+3).
FakeOffset(zoneName) ==
    IF Len(zoneName) > 3 /\ Take(zoneName, 3) = <<"G", "M", "T">>
    THEN atoi(From(zoneName, 4)).n * 3600
    ELSE 0

\* The end of time.parse, after the loop: Nil on an error, else the time.
\* The local zone of the process is taken to be UTC.
MakeTime(st) ==
    LET hour  == IF st.pmSet /\ st.hour < 12 THEN st.hour + 12
                 ELSE IF st.amSet /\ st.hour = 12 THEN 0
                 ELSE st.hour
        month == IF st.month < 0 THEN 1 ELSE st.month
        day   == IF st.day < 0 THEN 1 ELSE st.day
        days  == daysFromCivil(st.year, month, day)
        secs  == hour * 3600 + st.min * 60 + st.sec
    IN  IF st.err THEN Nil
        ELSE IF day < 1 \/ day > daysIn(month, st.year) THEN Nil
        ELSE IF st.utc THEN [ok |-> TRUE, t |-> Instant(days, secs, UTCName, 0)]
        ELSE IF st.zoneOffset # -1
             THEN [ok |-> TRUE,
                   t |-> IF st.zoneOffset = 0 /\ st.zoneName \in {<<>>, UTCName}
                         THEN Instant(days, secs, UTCName, 0)
                         ELSE Instant(days, secs - st.zoneOffset,
                                      st.zoneName, st.zoneOffset)]
        ELSE IF st.zoneName # <<>>
             THEN [ok |-> TRUE,
                   t |-> Instant(days, secs, st.zoneName, FakeOffset(st.zoneName))]
        ELSE [ok |-> TRUE, t |-> Instant(days, secs, UTCName, 0)]

\* time.Parse(layout, value)
TimeParse(layout, value) == MakeTime(ParseChunks(ParseStart(value), layout, 1))

\* The first of two attempts that succeeded, Nil if neither did.
OrElse(first, second) == IF first.ok THEN first ELSE second

----------------------------------------------------------------------------
(* ParseDate                                                               *)

Y4 == S("2006")

\* The two-digit year written as a four-digit one.
Y2_LongYear == S("2006")

Y2 == S("06")

MonthLong == S("January")

MonthShort == S("Jan")

MonthNum == S("1")

MonthZero == S("01")

DayNum == S("2")

DayZero == S("02")

\* The 24 date layouts of ParseDate, in the order of the source.
dateFormat ==
    << <<Y4, SP, MonthLong, SP, DayNum>>,          \* 2006 January 2
       <<Y4, Dash, MonthLong, Dash, DayNum>>,      \* 2006-January-2
       <<Y4, SP, MonthShort, SP, DayNum>>,         \* 2006 Jan 2
       <<Y4, Dash, MonthShort, Dash, DayNum>>,     \* 2006-Jan-2
       <<Y4, Dash, MonthNum, Dash, DayNum>>,       \* 2006-1-2
       <<Y4, SP, MonthNum, SP, DayNum>>,           \* 2006 1 2
       <<MonthNum, Dash, DayNum, Dash, Y4>>,       \* 1-2-2006
       <<MonthNum, Slash, DayNum, Slash, Y4>>,     \* 1/2/2006
       <<MonthZero, Dash, DayZero, Dash, Y4>>,     \* 01-02-2006
       <<MonthZero, Slash, DayZero, Slash, Y4>>,   \* 01/02/2006
       <<MonthLong, SP, DayNum, CommaSP, Y4>>,     \* January 2, 2006
       <<MonthShort, SP, DayNum, CommaSP, Y4>>,    \* Jan 2, 2006
       <<Y2, SP, MonthLong, SP, DayNum>>,          \* 06 January 2
       <<Y2, Dash, MonthLong, Dash, DayNum>>,      \* 06-January-2
       <<Y2, SP, MonthShort, SP, DayNum>>,         \* 06 Jan 2
       <<Y2, Dash, MonthShort, Dash, DayNum>>,     \* 06-Jan-2
       <<Y2, Dash, MonthNum, Dash, DayNum>>,       \* 06-1-2
       <<Y2, SP, MonthNum, SP, DayNum>>,           \* 06 1 2
       <<MonthNum, Dash, DayNum, Dash, Y2>>,       \* 1-2-06
       <<MonthNum, Slash, DayNum, Slash, Y2>>,     \* 1/2/06
       <<MonthZero, Dash, DayZero, Dash, Y2>>,     \* 01-02-06
       <<MonthZero, Slash, DayZero, Slash, Y2>>,   \* 01/02/06
       <<MonthLong, SP, DayNum, CommaSP, Y2>>,     \* January 2, 06
       <<MonthShort, SP, DayNum, CommaSP, Y2>> >>  \* Jan 2, 06

\* The 10 time layouts of ParseDate, in the order of the source.
timeFormat ==
    << <<S("15"), Colon, S("04"), Colon, S("05")>>,             \* 15:04:05
       <<S("03"), Colon, S("04"), Colon, S("05"), S("PM")>>,    \* 03:04:05PM
       <<S("03"), Colon, S("04"), Colon, S("05"), S("pm")>>,    \* 03:04:05pm
       <<S("3"), Colon, S("04"), Colon, S("05"), S("PM")>>,     \* 3:04:05PM
       <<S("3"), Colon, S("04"), Colon, S("05"), S("pm")>>,     \* 3:04:05pm
       <<S("15"), Colon, S("04")>>,                             \* 15:04
       <<S("03"), Colon, S("04"), S("PM")>>,                    \* 03:04PM
       <<S("03"), Colon, S("04"), S("pm")>>,                    \* 03:04pm
       <<S("3"), Colon, S("04"), S("PM")>>,                     \* 3:04PM
       <<S("3"), Colon, S("04"), S("pm")>> >>                   \* 3:04pm

HMS == <<S("15"), Colon, S("04"), Colon, S("05")>>

\* Mon, 02 Jan 2006 15:04:05 MST
RFC1123 ==
    <<S("Mon"), CommaSP, DayZero, SP, MonthShort, SP, Y4, SP>> \o HMS
        \o <<SP, S("MST")>>

\* The layouts of package time that ParseDate falls back to, in its order.
standardFormat ==
    << <<S("Mon"), SP, MonthShort, SP, S("_2"), SP>> \o HMS \o <<SP, Y4>>,   \* ANSIC
       <<S("Mon"), SP, MonthShort, SP, S("_2"), SP>> \o HMS
           \o <<SP, S("MST"), SP, Y4>>,                                     \* UnixDate
       <<S("Mon"), SP, MonthShort, SP, DayZero, SP>> \o HMS
           \o <<SP, S("-0700"), SP, Y4>>,                                   \* RubyDate
       <<DayZero, SP, MonthShort, SP, Y2, SP, S("15"), Colon, S("04"),
         SP, S("MST")>>,                                                    \* RFC822
       <<DayZero, SP, MonthShort, SP, Y2, SP, S("15"), Colon, S("04"),
         SP, S("-0700")>>,                                                  \* RFC822Z
       <<S("Monday"), CommaSP, DayZero, Dash, MonthShort, Dash, Y2, SP>>
           \o HMS \o <<SP, S("MST")>>,                                      \* RFC850
       RFC1123,
       <<S("Mon"), CommaSP, DayZero, SP, MonthShort, SP, Y4, SP>> \o HMS
           \o <<SP, S("-0700")>>,                                           \* RFC1123Z
       <<Y4, Dash, MonthZero, Dash, DayZero, L(<<"T">>)>> \o HMS
           \o <<S("Z07:00")>>,                                              \* RFC3339
       <<Y4, Dash, MonthZero, Dash, DayZero, L(<<"T">>)>> \o HMS
           \o <<S(".999999999"), S("Z07:00")>> >>                           \* RFC3339Nano

\* The inner loop of ParseDate: date layout fd with each time layout from
\* the j-th on, date first and then time first.
RECURSIVE TryTimes(_, _, _)
TryTimes(fd, j, date) ==
    IF j > Len(timeFormat) THEN Nil
    ELSE OrElse(TimeParse(fd \o <<SP>> \o timeFormat[j], date),
                OrElse(TimeParse(timeFormat[j] \o <<SP>> \o fd, date),
                       TryTimes(fd, j + 1, date)))

\* The outer loop of ParseDate over the date layouts from the i-th on.
RECURSIVE TryPairs(_, _)
TryPairs(i, date) ==
    IF i > Len(dateFormat) THEN Nil
    ELSE OrElse(TryTimes(dateFormat[i], 1, date), TryPairs(i + 1, date))

\* The first of the layouts, from the i-th on, that parses date.
RECURSIVE TryEach(_, _, _)
TryEach(layouts, i, date) ==
    IF i > Len(layouts) THEN Nil
    ELSE OrElse(TimeParse(layouts[i], date), TryEach(layouts, i + 1, date))

\* func ParseDate(date string) *time.Time
ParseDate(date) ==
    IF date = <<>> THEN Nil
    ELSE OrElse(TryPairs(1, date),
                OrElse(TryEach(dateFormat, 1, date),
                       TryEach(standardFormat, 1, date)))

----------------------------------------------------------------------------
(* Time.Format and Change.String                                           *)

\* time.appendInt: n in at least width digits.
appendInt(n, width) ==
    LET ds == FormatUint(n)
    IN  runeRepeat("0", width - Len(ds)) \o ds

\* The text Format writes for the chunk MST: the abbreviation of the zone,
\* or its offset as -0700 when it has none.
ZoneText(t) ==
    IF t.name # <<>> THEN t.name
    ELSE LET zone == IF t.offset < 0 THEN (0 - t.offset) \div 60 ELSE t.offset \div 60
         IN  <<IF t.offset < 0 THEN "-" ELSE "+">>
                 \o appendInt(zone \div 60, 2) \o appendInt(zone % 60, 2)

\* One chunk of a layout as Time.Format writes it.
FormatChunk(t, tok) ==
    LET c == Clock(t)
    IN  CASE tok.std = "lit"  -> tok.lit
          [] tok.std = "Mon"  -> shortDayNames[c.weekday + 1]
          [] tok.std = "02"   -> appendInt(c.day, 2)
          [] tok.std = "Jan"  -> shortMonthNames[c.month]
          [] tok.std = "2006" -> appendInt(c.year, 4)
          [] tok.std = "15"   -> appendInt(c.hour, 2)
          [] tok.std = "04"   -> appendInt(c.min, 2)
          [] tok.std = "05"   -> appendInt(c.sec, 2)
          [] tok.std = "MST"  -> ZoneText(t)

\* t.Format(layout)
RECURSIVE Format(_, _, _)
Format(t, layout, k) ==
    IF k > Len(layout) THEN <<>>
    ELSE FormatChunk(t, layout[k]) \o Format(t, layout, k + 1)

\* var DateTimeFormat = time.RFC1123
DateTimeFormat == RFC1123

maxWidth == 80

titlePad == 1

descPad == 2

\* strconv.Quote, the verb %q: s in double quotes with the quote, the
\* backslash and the newline escaped (the other characters of the model are
\* printable and are copied).
RECURSIVE Escape(_)
Escape(s) ==
    IF Len(s) = 0 THEN <<>>
    ELSE (CASE Head(s) = "\"" -> <<"\\", "\"">>
            [] Head(s) = "\\" -> <<"\\", "\\">>
            [] Head(s) = "\n" -> <<"\\", "n">>
            [] OTHER -> <<Head(s)>>) \o Escape(Tail(s))

Quote(s) == <<"\"">> \o Escape(s) \o <<"\"">>

\* fmt's %*s: s padded with spaces to the width, counted in characters, on
\* the left; a negative width pads on the right to its absolute value.
PadStr(width, s) ==
    IF width < 0 THEN s \o runeRepeat(" ", (0 - width) - Len(s))
    ELSE runeRepeat(" ", width - Len(s)) \o s

\* The left-hand side of the header that Change.String builds in vsb.
VersionSide(c) ==
       (IF c.Package # <<>> THEN c.Package \o <<" ">> ELSE <<>>)
    \o <<"v", "e", "r", "s", "i", "o", "n", " ">>
    \o c.Version
    \o (IF c.Title # <<>> THEN <<" ", "-", " ">> \o Quote(c.Title) ELSE <<>>)

\* t.Format(DateTimeFormat) if t is not nil, else nothing.
FormatDate(t) == IF t.ok THEN Format(t.t, DateTimeFormat, 1) ELSE <<>>

\* The right-hand side of the header that Change.String builds in dsb.
DateSide(c) == FormatDate(ParseDate(c.Date))

middlePad(vsb, dsb) ==
    maxWidth - ((ByteLen(vsb) + titlePad) + (ByteLen(dsb) + titlePad))

horizLine == runeRepeat("U+2015", maxWidth) \o <<"\n">>

\* The header line of Change.String, without its newline.
HeaderLine(vsb, dsb) ==
       PadStr(titlePad, <<>>) \o vsb
    \o (IF ByteLen(dsb) > 0 THEN PadStr(middlePad(vsb, dsb), <<>>) \o dsb ELSE <<>>)

RECURSIVE DescriptionLines(_)
DescriptionLines(lines) ==
    IF Len(lines) = 0 THEN <<>>
    ELSE PadStr(descPad, <<>>) \o Head(lines) \o <<"\n">>
             \o DescriptionLines(Tail(lines))

\* func (c *Change) String() string
ChangeString(c) ==
    IF Parse(c.Version).panic THEN [panic |-> TRUE, s |-> <<>>]
    ELSE [panic |-> FALSE,
          s |->    horizLine
                \o HeaderLine(VersionSide(c), DateSide(c)) \o <<"\n">>
                \o horizLine
                \o DescriptionLines(c.Description)]

----------------------------------------------------------------------------
(* Inputs                                                                  *)

\* Longest ChangeLog the application defines.
MaxLogLen == 2

\* Longest run of filler characters in a title.
MaxTitleLen == 33

Dot == <<".">>

Majors == {<<"0">>, <<"1", "0">>, <<"9", "9", "9">>}

Minors == {<<"0">>, <<"1">>}

Patches == {<<"0">>, <<"4">>}

Prereleases == {<<>>, <<"r", "c", ".", "1">>}

Metadatas == {<<>>, <<"f", "9">>}

\* Strings built as major.minor.patch[-prerelease][+metadata].
BuiltVersions ==
    { a \o Dot \o b \o Dot \o c
        \o (IF pre # <<>> THEN <<"-">> \o pre ELSE <<>>)
        \o (IF meta # <<>> THEN <<"+">> \o meta ELSE <<>>) :
      a \in Majors, b \in Minors, c \in Patches,
      pre \in Prereleases, meta \in Metadatas }

\* Strings of other shapes, most of them outside the grammar.
OtherVersions ==
    { <<>>, <<"1", ".", "2">>, <<"1", ".", "2", ".", "3", ".", "4">>, <<"v", "1", ".", "2", ".", "3">>, <<"0", "1", ".", "2", ".", "3">>, <<"1", ".", "2", ".", "3", "-">>, <<"1", ".", "2", ".", "3", "-", "0", "1">>,
      <<"1", ".", "2", ".", "3", "+">>, <<"1", ".", "2", ".", "3", "+", "a", "+", "b">>, <<"1", ".", "2", ".", "3", "-", "0", "a", ".", "-">>, <<"0", ".", "2", ".", "0", "-", "b", "e", "t", "a", "+", "r", "e", "d">> }

VersionInputs == BuiltVersions \cup OtherVersions

\* The strings the application passes to Set: 0.0.0, versions with and
\* without prerelease and metadata, a major number beyond uint, and strings
\* outside the grammar.
SetInputs ==
    { <<"0", ".", "0", ".", "0">>,
      <<"0", ".", "1", ".", "4">>,
      <<"1", "0", ".", "0", ".", "0">>,
      <<"0", ".", "0", ".", "0", "-", "r", "c", ".", "1">>,
      <<"0", ".", "0", ".", "0", "+", "f", "9">>,
      <<"1", "0", ".", "1", ".", "4", "-", "r", "c", ".", "1", "+", "f", "9">>,
      <<"9", "9", "9", ".", "0", ".", "0">>,
      <<"9", "9", "9", ".", "1", ".", "0">>,
      <<>>,
      <<"1", ".", "2">>,
      <<"1", ".", "2", ".", "3", ".", "4">>,
      <<"v", "1", ".", "2", ".", "3">> }

Entry(package, version, title, date, description) ==
    [Package |-> package, Version |-> version, Title |-> title,
     Date |-> date, Description |-> description]

\* The entries an application's ChangeLog is made of: those of the example
\* of the package, one with an invalid version, and one with version 0.0.0.
EntryPool ==
    { Entry(<<>>, <<"0", ".", "1", ".", "0">>, <<>>, <<"F", "e", "b", " ", "2", "6", ",", " ", "2", "0", "2", "0">>, <<<<"i", "n", "i", "t", "i", "a", "l", " ", "c", "o", "m", "m", "i", "t">>>>),
      Entry(<<>>, <<"0", ".", "1", ".", "0", "+", "f", "q", "t">>, <<"F", "o", "r", "m", "a", "l", " ", "T", "e", "s", "t">>, <<>>, <<<<"u", "p", "d", "a", "t", "e", " ", "u", "s", "e", "r", " ", "m", "a", "n", "u", "a", "l">>>>),
      Entry(<<>>, <<"0", ".", "2", ".", "0", "-", "b", "e", "t", "a", "+", "r", "e", "d">>, <<"R", "e", "d", " ", "L", "a", "b", "e", "l">>, <<"2", "0", "-", "M", "a", "r", "-", "9", " ", "1", "7", ":", "4", "5", ":", "2", "3">>,
            <<<<"a", "d", "d", " ", "f", "e", "a", "t", "u", "r", "e", ":", " ", "D", "u", "d", "e">>, <<"f", "i", "x", " ", "b", "u", "g", ":", " ", "S", "w", "e", "e", "t">>>>),
      Entry(<<"p", "k", "g">>, <<"1", ".", "2">>, <<>>, <<>>, <<>>),
      Entry(<<>>, <<"0", ".", "0", ".", "0">>, <<>>, <<>>, <<>>) }

RECURSIVE SeqsUpTo(_, _)
SeqsUpTo(set, n) ==
    IF n = 0 THEN {<<>>}
    ELSE LET shorter == SeqsUpTo(set, n - 1)
         IN  shorter \cup {Append(q, e) : q \in shorter, e \in set}

ChangeLogs == SeqsUpTo(EntryPool, MaxLogLen)

TitleLengths == {1} \cup (29..MaxTitleLen)

Titles ==
    { <<>>, <<"F", "o", "r", "m", "a", "l", " ", "T", "e", "s", "t">>,
      <<"c", "a", "f", "U+00E9">>, <<"a", "\"", "b">> }
        \cup {runeRepeat("x", n) : n \in TitleLengths}

Packages == {<<>>, <<"p", "k", "g">>, <<"c", "a", "f", "U+00E9">>}

DateTexts ==
    { <<"2", "0", "2", "0", "-", "0", "3", "-", "0", "9">>, <<"2", "0", "2", "0", " ", "3", " ", "9">>, <<"2", "0", "2", "0", "-", "M", "a", "r", "c", "h", "-", "9">>, <<"3", "/", "9", "/", "2", "0", "2", "0">>, <<"0", "3", "-", "0", "9", "-", "2", "0", "2", "0">>,
      <<"F", "e", "b", " ", "2", "6", ",", " ", "2", "0", "2", "0">>, <<"M", "a", "r", "c", "h", " ", "9", ",", " ", "2", "0", "2", "0">>, <<"2", "0", "-", "M", "a", "r", "-", "9">>, <<"2", "0", "-", "3", "-", "9">>, <<"0", "1", "-", "0", "2", "-", "0", "3">>,
      <<"3", "/", "9", "/", "2", "0">>, <<"M", "a", "r", " ", "9", ",", " ", "2", "0">>, <<"6", "9", " ", "j", "a", "n", " ", "2">>, <<"2", "0", "2", "1", "-", "F", "e", "b", "-", "2", "9">>, <<"n", "o", "t", " ", "a", " ", "d", "a", "t", "e">> }

TimeTexts ==
    { <<"1", "7", ":", "4", "5", ":", "2", "3">>, <<"1", "7", ":", "4", "5">>, <<"5", ":", "4", "5", "p", "m">>, <<"0", "5", ":", "4", "5", ":", "2", "3", "P", "M">>, <<"1", "2", ":", "0", "0", "A", "M">>, <<"2", "5", ":", "0", "0">>,
      <<"1", "7", ":", "4", "5", ":", "2", "3", ".", "5">> }

StandardTexts ==
    { <<"M", "o", "n", " ", "M", "a", "r", " ", " ", "9", " ", "1", "7", ":", "4", "5", ":", "2", "3", " ", "2", "0", "2", "0">>, <<"M", "o", "n", " ", "M", "a", "r", " ", " ", "9", " ", "1", "7", ":", "4", "5", ":", "2", "3", " ", "P", "S", "T", " ", "2", "0", "2", "0">>,
      <<"M", "o", "n", " ", "M", "a", "r", " ", "0", "9", " ", "1", "7", ":", "4", "5", ":", "2", "3", " ", "-", "0", "7", "0", "0", " ", "2", "0", "2", "0">>, <<"0", "9", " ", "M", "a", "r", " ", "2", "0", " ", "1", "7", ":", "4", "5", " ", "C", "E", "S", "T">>,
      <<"0", "9", " ", "M", "a", "r", " ", "2", "0", " ", "1", "7", ":", "4", "5", " ", "+", "0", "0", "0", "0">>, <<"M", "o", "n", "d", "a", "y", ",", " ", "0", "9", "-", "M", "a", "r", "-", "2", "0", " ", "1", "7", ":", "4", "5", ":", "2", "3", " ", "G", "M", "T", "+", "3">>,
      <<"M", "o", "n", ",", " ", "0", "9", " ", "M", "a", "r", " ", "2", "0", "2", "0", " ", "1", "7", ":", "4", "5", ":", "2", "3", " ", "U", "T", "C">>, <<"M", "o", "n", ",", " ", "0", "9", " ", "M", "a", "r", " ", "2", "0", "2", "0", " ", "2", "3", ":", "4", "5", ":", "2", "3", " ", "+", "0", "1", "3", "0">>,
      <<"2", "0", "2", "0", "-", "0", "3", "-", "0", "9", "T", "1", "7", ":", "4", "5", ":", "2", "3", "Z">>, <<"2", "0", "2", "0", "-", "0", "3", "-", "0", "9", "T", "1", "7", ":", "4", "5", ":", "2", "3", ".", "2", "5", "-", "0", "7", ":", "0", "0">> }

DateInputs ==
    {<<>>} \cup DateTexts \cup StandardTexts
        \cup {d \o <<" ">> \o t : d \in DateTexts, t \in TimeTexts}
        \cup {t \o <<" ">> \o d : d \in DateTexts, t \in TimeTexts}

\* The entries Change.String is applied to on its own.
ChangeInputs ==
    { Entry(p, v, t, d, ds) :
        p \in Packages,
        v \in {<<"0", ".", "1", ".", "0">>, <<"0", ".", "2", ".", "0", "-", "b", "e", "t", "a", "+", "r", "e", "d">>, <<"1", ".", "2">>},
        t \in Titles,
        d \in {<<>>, <<"F", "e", "b", " ", "2", "6", ",", " ", "2", "0", "2", "0">>, <<"2", "0", "-", "M", "a", "r", "-", "9", " ", "1", "7", ":", "4", "5", ":", "2", "3">>, <<"n", "o", "t", " ", "a", " ", "d", "a", "t", "e">>},
        ds \in {<<>>, <<<<"a", "d", "d", " ", "f", "e", "a", "t", "u", "r", "e", ":", " ", "D", "u", "d", "e">>, <<"f", "i", "x", " ", "b", "u", "g", ":", " ", "S", "w", "e", "e", "t">>>>} }

----------------------------------------------------------------------------
(* The package state and its operations                                    *)

\* var Version struct{...}: its zero value.
ZeroVersion ==
    [Major |-> 0, Minor |-> 0, Patch |-> 0, Prerelease |-> <<>>, Metadata |-> <<>>]

\* func IsSet() bool
IsSet ==
    \/ Version.Major # 0
    \/ Version.Minor # 0
    \/ Version.Patch # 0
    \/ Version.Prerelease # <<>>
    \/ Version.Metadata # <<>>

\* What the model records of the call that returned last: the operation, its
\* argument, whether it panicked, the string it returned, the components
\* (Parse) or the time (ParseDate) it returned, and for String() the
\* argument of a Set that succeeded right before it.
Call(op, arg, panic, ret, parts, after) ==
    [op |-> op, arg |-> arg, panic |-> panic, ret |-> ret, parts |-> parts,
     after |-> after]

NoParts == [none |-> TRUE]

NotSet == [set |-> FALSE]

NoCall == Call("none", <<>>, FALSE, <<>>, NoParts, NotSet)

\* str(Parse(...)): the panic of Parse, or its components rendered.
Rendered(p) ==
    IF p.panic THEN [panic |-> TRUE, s |-> <<>>]
    ELSE [panic |-> FALSE, s |-> str(p.major, p.minor, p.patch, p.pre, p.meta)]

\* String() that falls back to the first entry of ChangeLog.
StringResult_FirstEntry ==
    IF IsSet
    THEN [panic |-> FALSE,
          s |-> str(Version.Major, Version.Minor, Version.Patch,
                    Version.Prerelease, Version.Metadata)]
    ELSE IF Len(ChangeLog) > 0
         THEN Rendered(Parse(ChangeLog[1].Version))
    ELSE [panic |-> FALSE, s |-> <<>>]

\* The result of String() in the current state.
StringResult ==
    IF IsSet
    THEN [panic |-> FALSE,
          s |-> str(Version.Major, Version.Minor, Version.Patch,
                    Version.Prerelease, Version.Metadata)]
    ELSE IF Len(ChangeLog) > 0
         THEN Rendered(Parse(ChangeLog[Len(ChangeLog)].Version))
    ELSE [panic |-> FALSE, s |-> <<>>]

\* Set that assigns the zero version when Parse panics.
Assigned_Default(p) ==
    IF p.panic THEN ZeroVersion
    ELSE [Major |-> p.major, Minor |-> p.minor, Patch |-> p.patch,
          Prerelease |-> p.pre, Metadata |-> p.meta]

\* The fields of Version after the assignment of Set, given what Parse
\* returned: unchanged when it panicked.
Assigned(p) ==
    IF p.panic THEN Version
    ELSE [Major |-> p.major, Minor |-> p.minor, Patch |-> p.patch,
          Prerelease |-> p.pre, Metadata |-> p.meta]

\* The index of the entry FprintChangeLog visits after the idx-th.
NextIndex(i) == i + 1

\* The write without the blank line after the entry.
Written_NoBlankLine(sink, text) == sink \o text

\* The sink after fmt.Fprintf(w, "%s\n", text).
Written(sink, text) == sink \o text \o <<"\n">>

Init ==
    /\ Version = ZeroVersion
    /\ ChangeLog \in ChangeLogs
    /\ last = NoCall
    /\ justSet = NotSet
    /\ w = <<>>
    /\ pc = "idle"
    /\ idx = 0
    /\ input = <<>>

\* Set(version), given what its call of Parse returned.
SetWith(version, p) ==
    /\ Version' = Assigned(p)
    /\ last' = Call("Set", version, p.panic, <<>>, NoParts, NotSet)
    /\ justSet' = IF p.panic THEN NotSet ELSE [set |-> TRUE, v |-> version]

\* func Set(version string)
Set(version) ==
    /\ pc = "idle"
    /\ SetWith(version, Parse(version))
    /\ UNCHANGED <<ChangeLog, w, pc, idx, input>>

Returned(op, r, after) == Call(op, <<>>, r.panic, r.s, NoParts, after)

\* func String() string
String ==
    /\ pc = "idle"
    /\ last' = Returned("String", StringResult, justSet)
    /\ justSet' = NotSet
    /\ UNCHANGED <<Version, ChangeLog, w, pc, idx, input>>

ParseReturned(version, p) == Call("Parse", version, p.panic, <<>>, p, NotSet)

\* func FprintChangeLog(w io.Writer): the call, with an empty sink.
FprintChangeLog ==
    /\ pc = "idle"
    /\ pc' = "range"
    /\ idx' = NextIndex(0)
    /\ w' = <<>>
    /\ last' = NoCall
    /\ justSet' = NotSet
    /\ UNCHANGED <<Version, ChangeLog, input>>

\* fmt.Fprintf(w, "%s\n", c.String()), given what c.String() did.
WriteEntry(r) ==
    IF r.panic
    THEN /\ pc' = "idle"
         /\ last' = Call("FprintChangeLog", <<>>, TRUE, <<>>, NoParts, NotSet)
         /\ UNCHANGED <<w, idx>>
    ELSE /\ w' = Written(w, r.s)
         /\ idx' = NextIndex(idx)
         /\ UNCHANGED <<pc, last>>

\* One iteration of the loop: c.String() and then the write of it, or the
\* panic of c.String() that ends the call.
FprintEntry ==
    /\ pc = "range"
    /\ idx \in 1..Len(ChangeLog)
    /\ WriteEntry(ChangeString(ChangeLog[idx]))
    /\ UNCHANGED <<Version, ChangeLog, justSet, input>>

\* The end of the loop and the return.
FprintReturn ==
    /\ pc = "range"
    /\ idx \notin 1..Len(ChangeLog)
    /\ pc' = "idle"
    /\ last' = Call("FprintChangeLog", <<>>, FALSE, <<>>, NoParts, NotSet)
    /\ UNCHANGED <<Version, ChangeLog, justSet, w, idx, input>>

Next ==
    \/ \E version \in SetInputs : Set(version)
    \/ String
    \/ FprintChangeLog
    \/ FprintEntry
    \/ FprintReturn

Spec == Init /\ [][Next]_vars

----------------------------------------------------------------------------
(* Parse, Change.String and ParseDate on their own                         *)

InitParse ==
    /\ Version = ZeroVersion
    /\ ChangeLog = <<>>
    /\ last = NoCall
    /\ justSet = NotSet
    /\ w = <<>>
    /\ pc = "idle"
    /\ idx = 0
    /\ input \in VersionInputs

\* Parse(version) for the string drawn as input.
CallParse ==
    /\ last.op = "none"
    /\ last' = ParseReturned(input, Parse(input))
    /\ UNCHANGED <<Version, ChangeLog, justSet, w, pc, idx, input>>

NextParse == CallParse

SpecParse == InitParse /\ [][NextParse]_vars

InitFormat ==
    /\ Version = ZeroVersion
    /\ ChangeLog = <<>>
    /\ last = NoCall
    /\ justSet = NotSet
    /\ w = <<>>
    /\ pc = "idle"
    /\ idx = 0
    /\ input \in ChangeInputs

\* c.String() for the entry c drawn as input.
CallChangeString ==
    /\ last.op = "none"
    /\ last' = Returned("Change.String", ChangeString(input), NotSet)
    /\ UNCHANGED <<Version, ChangeLog, justSet, w, pc, idx, input>>

NextFormat == CallChangeString

SpecFormat == InitFormat /\ [][NextFormat]_vars

InitDate ==
    /\ Version = ZeroVersion
    /\ ChangeLog = <<>>
    /\ last = NoCall
    /\ justSet = NotSet
    /\ w = <<>>
    /\ pc = "idle"
    /\ idx = 0
    /\ input \in DateInputs

\* ParseDate(date) for the string drawn as input.
CallParseDate ==
    /\ last.op = "none"
    /\ last' = Call("ParseDate", input, FALSE, <<>>, ParseDate(input), NotSet)
    /\ UNCHANGED <<Version, ChangeLog, justSet, w, pc, idx, input>>

NextDate == CallParseDate

SpecDate == InitDate /\ [][NextDate]_vars

----------------------------------------------------------------------------
(* Claims                                                                  *)

V000 == <<"0", ".", "0", ".", "0">>

\* Whether the three numbers of a string of the grammar fit in a uint.
NumbersFit(version) ==
    \A i \in 1..3 : ParseUintFrom(FindStringSubmatch(version)[i], 1, 0) >= 0

\* What String() returns while the version is unset holds for r.
IsFallback(r) ==
    IF Len(ChangeLog) = 0 THEN ~r.panic /\ r.ret = <<>>
    ELSE LET e == ChangeLog[Len(ChangeLog)]
         IN  IF ValidVersion(e.Version)
             THEN /\ ~r.panic
                  /\ r.ret = Rendered(Parse(e.Version)).s
                  /\ (NumbersFit(e.Version) => r.ret = e.Version)
             ELSE r.panic

\* C1: whatever Version and ChangeLog were, String() right after a successful
\* Set(v) returns exactly v.
C1_SetThenStringReturnsV ==
    (last.op = "String" /\ last.after.set)
        => (~last.panic /\ last.ret = last.after.v)

\* C2: for every string of the grammar Parse succeeds and its five
\* components, rendered by str, give the string back.
C2_RoundTrip ==
    (last.op = "Parse" /\ ValidVersion(last.arg)) =>
        /\ ~last.panic
        /\ str(last.parts.major, last.parts.minor, last.parts.patch,
               last.parts.pre, last.parts.meta) = last.arg

InvalidExamples == {<<"1", ".", "2">>, <<"1", ".", "2", ".", "3", ".", "4">>, <<"v", "1", ".", "2", ".", "3">>, <<>>}

\* C3: Set of a string outside the grammar panics and leaves the five fields
\* of Version as they were.
C3_InvalidSetKeepsVersion ==
    [][(last'.op = "Set" /\ (last'.arg \in InvalidExamples \/ ~ValidVersion(last'.arg)))
           => (last'.panic /\ Version' = Version)]_vars

C3_Witness ==
    /\ last.op = "Set"
    /\ last.arg = <<"1", ".", "2">>
    /\ last.panic
    /\ Version.Major = 10
    /\ Version.Metadata = <<"f", "9">>

\* C4: while the version is unset String() returns the last entry of
\* ChangeLog rendered, or the empty string when ChangeLog is empty, and the
\* call changes neither Version nor ChangeLog, so the version stays unset.
\* (With a last entry outside the grammar the call panics instead.)
C4_UnsetStringFallsBack ==
    /\ []((last.op = "String" /\ ~IsSet) => IsFallback(last))
    /\ [][(last'.op = "String" /\ ~IsSet)
              => (Version' = Version /\ ChangeLog' = ChangeLog /\ ~IsSet')]_vars

C4_Witness ==
    /\ last.op = "String"
    /\ ~IsSet
    /\ Len(ChangeLog) = 2
    /\ ChangeLog[1].Version # ChangeLog[2].Version
    /\ ValidVersion(ChangeLog[1].Version)
    /\ last.ret = ChangeLog[2].Version
    /\ last.ret # V000

\* C5: IsSet() holds exactly when a field of Version differs from its zero
\* value (so not at the start), and after a successful Set(v) it holds
\* exactly when v is not 0.0.0.
C5_IsSetIffNotZero ==
    /\ IsSet <=> (Version # ZeroVersion)
    /\ (last.op = "Set" /\ ~last.panic) => (IsSet <=> (last.arg # V000))

Spaces(n) == runeRepeat(" ", n)

\* The second line of what Change.String returned.
HeaderOf(text) ==
    LET rest == From(text, Len(horizLine) + 1)
    IN  Take(rest, FirstOf(rest, {"\n"}, 1) - 1)

\* Change.String returned for an entry with a valid version and a date that
\* parses.
DatedEntry ==
    /\ last.op = "Change.String"
    /\ ~last.panic
    /\ ParseDate(input.Date).ok

\* C6: when the left-hand text and the date fit in the width, the header has
\* the left-hand text from column 2, the date up to column 79 and only spaces
\* between them.  A character of the model is one column wide.
C6_DateEndsAtColumn79 ==
    (/\ DatedEntry
     /\ Len(VersionSide(input)) + Len(DateSide(input)) + 2 * titlePad <= maxWidth)
        => HeaderOf(last.ret) =
               Spaces(titlePad) \o VersionSide(input)
                   \o Spaces(maxWidth - 2 * titlePad
                                 - Len(VersionSide(input)) - Len(DateSide(input)))
                   \o DateSide(input)

\* C7: when the computed padding is zero or negative the date follows the
\* left-hand text with nothing between them.
C7_NoPaddingOverBudget ==
    (DatedEntry /\ middlePad(VersionSide(input), DateSide(input)) <= 0)
        => HeaderOf(last.ret) =
               Spaces(titlePad) \o VersionSide(input) \o DateSide(input)

VersionWord == <<"v", "e", "r", "s", "i", "o", "n", " ">>

\* C8: with no package name and a title T the left-hand text of the header
\* is "version V - T", the title as it is, without quotes.
C8_TitleVerbatim ==
    (/\ last.op = "Change.String"
     /\ ~last.panic
     /\ input.Package = <<>>
     /\ input.Title # <<>>)
        => LET left == VersionWord \o input.Version \o <<" ", "-", " ">> \o input.Title
               head == HeaderOf(last.ret)
           IN  /\ Take(head, titlePad + Len(left)) = Spaces(titlePad) \o left
               /\ (Len(head) > titlePad + Len(left)
                      => head[titlePad + Len(left) + 1] = " ")

\* The index of the first entry of ChangeLog, from the k-th on, whose version
\* is outside the grammar; Len(ChangeLog) + 1 if there is none.
RECURSIVE FirstInvalid(_)
FirstInvalid(k) ==
    IF k > Len(ChangeLog) THEN k
    ELSE IF ~ValidVersion(ChangeLog[k].Version) THEN k
    ELSE FirstInvalid(k + 1)

\* The renders of the first n entries of ChangeLog, each with a blank line
\* after it.
RECURSIVE Report(_)
Report(n) ==
    IF n = 0 THEN <<>>
    ELSE Report(n - 1) \o ChangeString(ChangeLog[n]).s \o <<"\n">>

\* C9: FprintChangeLog writes the render of each entry and a blank line, in
\* the order of ChangeLog; at an entry with an invalid version it panics,
\* with the renders of the entries before it written and nothing else.
C9_WritesEntriesInOrder ==
    /\ pc = "range" => (idx <= FirstInvalid(1) /\ w = Report(idx - 1))
    /\ (pc = "idle" /\ last.op = "FprintChangeLog") =>
           /\ last.panic <=> (FirstInvalid(1) <= Len(ChangeLog))
           /\ w = Report(FirstInvalid(1) - 1)

C9_Witness ==
    /\ pc = "idle"
    /\ last.op = "FprintChangeLog"
    /\ last.panic
    /\ Len(ChangeLog) = 2
    /\ FirstInvalid(1) = 2
    /\ Len(w) > 3 * maxWidth

C10Input == <<"2", "0", "-", "M", "a", "r", "-", "9", " ", "1", "7", ":", "4", "5", ":", "2", "3">>

Moment(y, m, d, hh, mm, ss) ==
    [year |-> y, month |-> m, day |-> d, hour |-> hh, min |-> mm, sec |-> ss]

MomentOf(t) ==
    LET c == Clock(t) IN Moment(c.year, c.month, c.day, c.hour, c.min, c.sec)

\* C10, as stated: ParseDate("20-Mar-9 17:45:23") is 2009-03-20 17:45:23.
C10_Year2009 ==
    (last.op = "ParseDate" /\ last.arg = C10Input) =>
        /\ last.parts.ok
        /\ MomentOf(last.parts.t) = Moment(2009, 3, 20, 17, 45, 23)

\* C10 amended: ParseDate("20-Mar-9 17:45:23") is 2020-03-09 17:45:23 UTC,
\* the parse by the two-digit-year layout "06-Jan-2 15:04:05" (the 16th date
\* layout with the first time layout, date first), which is the first layout
\* in the order of ParseDate that parses the string.
C10_Year2020 ==
    (last.op = "ParseDate" /\ last.arg = C10Input) =>
        /\ last.parts.ok
        /\ MomentOf(last.parts.t) = Moment(2020, 3, 9, 17, 45, 23)
        /\ last.parts.t.name = UTCName
        /\ dateFormat[16] = <<S("06"), Dash, MonthShort, Dash, DayNum>>
        /\ last.parts = TimeParse(dateFormat[16] \o <<SP>> \o timeFormat[1], C10Input)
        /\ \A i \in 1..15 : \A j \in 1..Len(timeFormat) :
               /\ ~TimeParse(dateFormat[i] \o <<SP>> \o timeFormat[j], C10Input).ok
               /\ ~TimeParse(timeFormat[j] \o <<SP>> \o dateFormat[i], C10Input).ok

C10_Witness ==
    /\ last.op = "ParseDate"
    /\ last.arg = C10Input
    /\ last.parts.ok

====
